---- MODULE Spec2Model ----
(***************************************************************************)
(* The task tracker of Mund99/cli_todolist as a state machine.             *)
(*                                                                         *)
(* Two programs share the persisted format: the TaskManager class          *)
(* (src/task_manager.py), whose methods are its operations, and the        *)
(* task_cli.py script, whose operations are the commands main() parses.    *)
(* A behaviour runs one of them (impl) against one backing file.           *)
(*                                                                         *)
(* A description is a sequence of one-character strings, so that strip()   *)
(* is computed and not assumed.  A timestamp is the value of the clock     *)
(* (now) that datetime.now() reads.  The backing file is its form on disk  *)
(* together with the JSON value its text denotes.                          *)
(***************************************************************************)
EXTENDS Integers, Sequences, FiniteSets, TLC

VARIABLES impl, tasks_file, now, issued, lastOp

vars == <<impl, tasks_file, now, issued, lastOp>>

(* ------------------------------ bounds -------------------------------- *)

\* most task records held by the file
MaxTasks == 2
\* largest id an add may assign, and largest id passed to an operation
MaxId == 3
(* ------------------------------ values -------------------------------- *)

\* Optional[int] None of add_task's result
NoId == 0

\* Optional[str] None of get_tasks' status parameter
None == "None"

Whitespace == {" "}

valid_statuses == {"todo", "in_progress", "done"}

\* argparse choices of the mark and list sub-commands
choices == {"todo", "in-progress", "done"}

\* descriptions passed to add and update
Descriptions == {<<>>, <<" ", " ">>, <<"a">>, <<" ", "b", " ">>}

\* descriptions typed on the command line
CliDescriptions == {<<>>, <<" ", "b", " ">>}

\* status values passed to change_status and get_tasks
StatusArgs == valid_statuses \cup {"in-progress", "bogus", ""}

\* status tokens typed on the command line
StatusTokens == choices \cup {"in_progress", "bogus"}

Ids == 1..MaxId

\* readings of the clock: datetime.now() to the second
Times == {0, 1}

(* -------------------------- pure helpers ------------------------------ *)

RECURSIVE lstrip(_)
lstrip(s) ==
    IF s # <<>> /\ Head(s) \in Whitespace THEN lstrip(Tail(s)) ELSE s

RECURSIVE rstrip(_)
rstrip(s) ==
    IF s # <<>> /\ s[Len(s)] \in Whitespace
    THEN rstrip(SubSeq(s, 1, Len(s) - 1))
    ELSE s

\* str.strip()
strip(s) == rstrip(lstrip(s))

\* variant: only `not description` is tested
is_empty_no_strip(description) == description = <<>>

\* `not description or not description.strip()`
is_empty(description) == description = <<>> \/ strip(description) = <<>>

\* variant: the number of records taken for the largest id
max_id_count(tasks) == Len(tasks)

RECURSIVE max_id(_)
\* max([task["id"] for task in tasks], default=0)
max_id(tasks) ==
    IF tasks = <<>> THEN 0
    ELSE LET m == max_id(Tail(tasks))
         IN  IF Head(tasks).id > m THEN Head(tasks).id ELSE m

\* index of the first record the `for task in tasks` loop matches, 0 if none
first_match(tasks, task_id) ==
    IF \E k \in 1..Len(tasks) : tasks[k].id = task_id
    THEN CHOOSE k \in 1..Len(tasks) :
            /\ tasks[k].id = task_id
            /\ \A j \in 1..(k - 1) : tasks[j].id # task_id
    ELSE 0

\* args.status.replace("-", "_") on the tokens of the command line
normalize(token) == IF token = "in-progress" THEN "in_progress" ELSE token

(* --------------------------- backing file ----------------------------- *)

\* forms of the file whose text is a JSON document
JsonForms == {"compact", "indent4"}

absent_file == [form |-> "absent", data |-> <<>>]

blank_file == [form |-> "blank", data |-> <<>>]

\* json.dumps(tasks, indent=4) written over the previous content
written_file(tasks) == [form |-> "indent4", data |-> tasks]

(* ------------------- TaskManager (task_manager.py) -------------------- *)

\* TaskManager.load_tasks: the list the file holds; the empty list when the
\* file is absent, blank, not JSON, or cannot be read as text
load_tasks(f) == IF f.form \in JsonForms THEN f.data ELSE <<>>

\* what load_tasks prints
load_out(f) ==
    IF f.form = "malformed" THEN <<"invalid_json">>
    ELSE IF f.form = "undecodable" THEN <<"load_error">>
    ELSE <<>>

\* variant: the file opened for appending, so that the new text follows the
\* old and the whole is no JSON document
save_tasks_append(f, tasks, can_write) ==
    IF can_write
    THEN [file |-> IF f.form \in {"absent", "blank"}
                   THEN [form |-> "indent4", data |-> tasks]
                   ELSE IF f.form = "undecodable" THEN f
                   ELSE [form |-> "malformed", data |-> <<>>],
          ret |-> TRUE, out |-> <<>>]
    ELSE [file |-> f, ret |-> FALSE, out |-> <<"save_error">>]

\* TaskManager.save_tasks: the whole collection written over the file (and
\* the file, with its directory, created when missing); can_write is whether
\* the system lets write_text succeed (a refused write, such as a permission
\* error, leaves the file as it was)
save_tasks(f, tasks, can_write) ==
    IF can_write
    THEN [file |-> written_file(tasks), ret |-> TRUE, out |-> <<>>]
    ELSE [file |-> f, ret |-> FALSE, out |-> <<"save_error">>]

new_task(new_id, description, current_datetime) ==
    [id          |-> new_id,
     description |-> description,
     status      |-> "todo",
     created_at  |-> current_datetime,
     updated_at  |-> current_datetime]

\* variant: the new id counted from the length of the collection
add_task_count(f, description, current_datetime, can_write) ==
    IF is_empty(description)
    THEN [file |-> f, ret |-> NoId, out |-> <<"empty_description">>,
          wrote |-> FALSE]
    ELSE LET tasks  == load_tasks(f)
             new_id == Len(tasks) + 1
             s == save_tasks(f,
                     Append(tasks,
                            new_task(new_id, strip(description),
                                     current_datetime)),
                     can_write)
         IN  [file  |-> s.file,
              ret   |-> IF s.ret THEN new_id ELSE NoId,
              out   |-> load_out(f) \o s.out,
              wrote |-> s.ret]

\* variant: the largest id taken as the new id, except on an empty collection
add_task_no_increment(f, description, current_datetime, can_write) ==
    IF is_empty(description)
    THEN [file |-> f, ret |-> NoId, out |-> <<"empty_description">>,
          wrote |-> FALSE]
    ELSE LET tasks  == load_tasks(f)
             new_id == IF tasks = <<>> THEN 1 ELSE max_id(tasks)
             s == save_tasks(f,
                     Append(tasks,
                            new_task(new_id, strip(description),
                                     current_datetime)),
                     can_write)
         IN  [file  |-> s.file,
              ret   |-> IF s.ret THEN new_id ELSE NoId,
              out   |-> load_out(f) \o s.out,
              wrote |-> s.ret]

\* TaskManager.add_task
add_task(f, description, current_datetime, can_write) ==
    IF is_empty(description)
    THEN [file |-> f, ret |-> NoId, out |-> <<"empty_description">>,
          wrote |-> FALSE]
    ELSE LET tasks  == load_tasks(f)
             new_id == max_id(tasks) + 1
             s == save_tasks(f,
                     Append(tasks,
                            new_task(new_id, strip(description),
                                     current_datetime)),
                     can_write)
         IN  [file  |-> s.file,
              ret   |-> IF s.ret THEN new_id ELSE NoId,
              out   |-> load_out(f) \o s.out,
              wrote |-> s.ret]

\* variant: the matched record built anew instead of changed in place
update_task_rebuilds(f, task_id, description, current_datetime, can_write) ==
    IF is_empty(description)
    THEN [file |-> f, ret |-> FALSE, out |-> <<"empty_description">>,
          wrote |-> FALSE]
    ELSE LET tasks == load_tasks(f)
             k     == first_match(tasks, task_id)
         IN  IF k # 0
             THEN LET s == save_tasks(f,
                              [tasks EXCEPT
                                 ![k] = new_task(task_id, strip(description),
                                                 current_datetime)],
                              can_write)
                  IN  [file |-> s.file, ret |-> s.ret,
                       out |-> load_out(f) \o s.out, wrote |-> s.ret]
             ELSE [file |-> f, ret |-> FALSE,
                   out |-> load_out(f) \o <<"not_found">>, wrote |-> FALSE]

\* TaskManager.update_task
update_task(f, task_id, description, current_datetime, can_write) ==
    IF is_empty(description)
    THEN [file |-> f, ret |-> FALSE, out |-> <<"empty_description">>,
          wrote |-> FALSE]
    ELSE LET tasks == load_tasks(f)
             k     == first_match(tasks, task_id)
         IN  IF k # 0
             THEN LET s == save_tasks(f,
                              [tasks EXCEPT
                                 ![k].description = strip(description),
                                 ![k].updated_at  = current_datetime],
                              can_write)
                  IN  [file |-> s.file, ret |-> s.ret,
                       out |-> load_out(f) \o s.out, wrote |-> s.ret]
             ELSE [file |-> f, ret |-> FALSE,
                   out |-> load_out(f) \o <<"not_found">>, wrote |-> FALSE]

\* variant: the remainder saved whether or not a record matched
delete_task_always_saves(f, task_id, can_write) ==
    LET tasks     == load_tasks(f)
        remaining == SelectSeq(tasks, LAMBDA task : task.id # task_id)
        s         == save_tasks(f, remaining, can_write)
    IN  [file |-> s.file, ret |-> s.ret,
         out |-> load_out(f) \o s.out, wrote |-> s.ret]

\* variant: only the first matching record removed
delete_task_first_only(f, task_id, can_write) ==
    LET tasks     == load_tasks(f)
        k         == first_match(tasks, task_id)
        remaining == SubSeq(tasks, 1, k - 1)
                        \o SubSeq(tasks, k + 1, Len(tasks))
    IN  IF k = 0
        THEN [file |-> f, ret |-> FALSE,
              out |-> load_out(f) \o <<"not_found">>, wrote |-> FALSE]
        ELSE LET s == save_tasks(f, remaining, can_write)
             IN  [file |-> s.file, ret |-> s.ret,
                  out |-> load_out(f) \o s.out, wrote |-> s.ret]

\* TaskManager.delete_task
delete_task(f, task_id, can_write) ==
    LET tasks     == load_tasks(f)
        remaining == SelectSeq(tasks, LAMBDA task : task.id # task_id)
    IN  IF Len(remaining) = Len(tasks)
        THEN [file |-> f, ret |-> FALSE,
              out |-> load_out(f) \o <<"not_found">>, wrote |-> FALSE]
        ELSE LET s == save_tasks(f, remaining, can_write)
             IN  [file |-> s.file, ret |-> s.ret,
                  out |-> load_out(f) \o s.out, wrote |-> s.ret]

\* variant: the status taken as given, valid or not
change_status_unchecked(f, task_id, status, current_datetime, can_write) ==
    LET tasks == load_tasks(f)
        k     == first_match(tasks, task_id)
    IN  IF k # 0
        THEN LET s == save_tasks(f,
                         [tasks EXCEPT
                            ![k].status     = status,
                            ![k].updated_at = current_datetime],
                         can_write)
             IN  [file |-> s.file, ret |-> s.ret,
                  out |-> load_out(f) \o s.out, wrote |-> s.ret]
        ELSE [file |-> f, ret |-> FALSE,
              out |-> load_out(f) \o <<"not_found">>, wrote |-> FALSE]

\* TaskManager.change_status
change_status(f, task_id, status, current_datetime, can_write) ==
    IF status \notin valid_statuses
    THEN [file |-> f, ret |-> FALSE, out |-> <<"invalid_status">>,
          wrote |-> FALSE]
    ELSE LET tasks == load_tasks(f)
             k     == first_match(tasks, task_id)
         IN  IF k # 0
             THEN LET s == save_tasks(f,
                              [tasks EXCEPT
                                 ![k].status     = status,
                                 ![k].updated_at = current_datetime],
                              can_write)
                  IN  [file |-> s.file, ret |-> s.ret,
                       out |-> load_out(f) \o s.out, wrote |-> s.ret]
             ELSE [file |-> f, ret |-> FALSE,
                   out |-> load_out(f) \o <<"not_found">>, wrote |-> FALSE]

\* TaskManager.get_tasks; `if status:` is false for None and for ""
get_tasks(f, status) ==
    LET tasks == load_tasks(f)
    IN  IF status # None /\ status # ""
        THEN IF status \notin valid_statuses
             THEN [ret |-> <<>>, out |-> load_out(f) \o <<"invalid_status">>]
             ELSE [ret |-> SelectSeq(tasks,
                                     LAMBDA task : task.status = status),
                   out |-> load_out(f)]
        ELSE [ret |-> tasks, out |-> load_out(f)]

(* ------------------------ task_cli.py script -------------------------- *)

\* result of a command that ends in an uncaught exception
cli_crash(f) ==
    [file |-> f, ok |-> FALSE, new_id |-> NoId, listed |-> <<>>,
     out |-> <<"traceback">>, wrote |-> FALSE]

\* task_cli.load_tasks: only json.JSONDecodeError is caught
cli_load_tasks(f) ==
    [tasks  |-> IF f.form \in JsonForms THEN f.data ELSE <<>>,
     raised |-> f.form = "undecodable",
     out    |-> IF f.form = "malformed" THEN <<"invalid_json">> ELSE <<>>]

\* task_cli.save_tasks: a refused write raises
cli_save_tasks(f, tasks, can_write) ==
    [file   |-> IF can_write THEN written_file(tasks) ELSE f,
     raised |-> ~can_write]

\* task_cli.add_task
cli_add_task(f, description, current_datetime, can_write) ==
    LET l      == cli_load_tasks(f)
        new_id == max_id(l.tasks) + 1
        s == cli_save_tasks(f,
                Append(l.tasks,
                       new_task(new_id, description, current_datetime)),
                can_write)
    IN  IF l.raised \/ s.raised THEN cli_crash(f)
        ELSE [file |-> s.file, ok |-> TRUE, new_id |-> new_id,
              listed |-> <<>>, out |-> l.out \o <<"added">>, wrote |-> TRUE]

\* task_cli.update_task
cli_update_task(f, task_id, description, current_datetime, can_write) ==
    LET l == cli_load_tasks(f)
        k == first_match(l.tasks, task_id)
        s == cli_save_tasks(f,
                [l.tasks EXCEPT ![k].description = description,
                                ![k].updated_at  = current_datetime],
                can_write)
    IN  IF l.raised THEN cli_crash(f)
        ELSE IF k = 0
        THEN [file |-> f, ok |-> FALSE, new_id |-> NoId, listed |-> <<>>,
              out |-> l.out \o <<"not_found">>, wrote |-> FALSE]
        ELSE IF s.raised THEN cli_crash(f)
        ELSE [file |-> s.file, ok |-> TRUE, new_id |-> NoId,
              listed |-> <<>>, out |-> l.out \o <<"updated">>,
              wrote |-> TRUE]

\* task_cli.delete_task: saves and reports success whether or not a record
\* matched
cli_delete_task(f, task_id, can_write) ==
    LET l == cli_load_tasks(f)
        s == cli_save_tasks(f,
                SelectSeq(l.tasks, LAMBDA task : task.id # task_id),
                can_write)
    IN  IF l.raised \/ s.raised THEN cli_crash(f)
        ELSE [file |-> s.file, ok |-> TRUE, new_id |-> NoId,
              listed |-> <<>>, out |-> l.out \o <<"deleted">>,
              wrote |-> TRUE]

\* task_cli.change_status: STATUSES is never consulted
cli_change_status(f, task_id, status, current_datetime, can_write) ==
    LET l == cli_load_tasks(f)
        k == first_match(l.tasks, task_id)
        s == cli_save_tasks(f,
                [l.tasks EXCEPT ![k].status     = status,
                                ![k].updated_at = current_datetime],
                can_write)
    IN  IF l.raised THEN cli_crash(f)
        ELSE IF k = 0
        THEN [file |-> f, ok |-> FALSE, new_id |-> NoId, listed |-> <<>>,
              out |-> l.out \o <<"not_found">>, wrote |-> FALSE]
        ELSE IF s.raised THEN cli_crash(f)
        ELSE [file |-> s.file, ok |-> TRUE, new_id |-> NoId,
              listed |-> <<>>, out |-> l.out \o <<"status_changed">>,
              wrote |-> TRUE]

\* task_cli.list_tasks: the records printed, one line each
cli_list_tasks(f, status) ==
    LET l     == cli_load_tasks(f)
        tasks == IF status # None /\ status # ""
                 THEN SelectSeq(l.tasks, LAMBDA task : task.status = status)
                 ELSE l.tasks
    IN  IF l.raised THEN cli_crash(f)
        ELSE [file |-> f, ok |-> TRUE, new_id |-> NoId, listed |-> tasks,
              out |-> l.out \o (IF tasks = <<>> THEN <<"no_tasks">>
                                ELSE <<>>),
              wrote |-> FALSE]

\* argparse's exit on an argument outside the sub-command's choices
cli_usage_error(f) ==
    [file |-> f, ok |-> FALSE, new_id |-> NoId, listed |-> <<>>,
     out |-> <<"usage_error">>, wrote |-> FALSE]

\* task_cli.main: parse the command line, then dispatch; token is the status
\* argument as typed (None when `list` is given none)
main(f, command, task_id, description, token, current_datetime, can_write) ==
    IF command = "add"
    THEN cli_add_task(f, description, current_datetime, can_write)
    ELSE IF command = "update"
    THEN cli_update_task(f, task_id, description, current_datetime,
                         can_write)
    ELSE IF command = "delete"
    THEN cli_delete_task(f, task_id, can_write)
    ELSE IF command = "mark"
    THEN IF token \notin choices THEN cli_usage_error(f)
         ELSE cli_change_status(f, task_id, normalize(token),
                                current_datetime, can_write)
    ELSE IF command = "list"
    THEN IF token # None /\ token \notin choices THEN cli_usage_error(f)
         ELSE cli_list_tasks(f, IF token # None THEN normalize(token)
                                ELSE None)
    ELSE [file |-> f, ok |-> TRUE, new_id |-> NoId, listed |-> <<>>,
          out |-> <<"help">>, wrote |-> FALSE]

(* --------------------------- state machine ---------------------------- *)

\* the call that has just run, with its arguments and what it returned and
\* printed, until the caller takes the result (the script: until it exits)
Op(op, task_id, description, status, ok, new_id, listed, out, wrote) ==
    [op |-> op, task_id |-> task_id, description |-> description,
     status |-> status, ok |-> ok, new_id |-> new_id, listed |-> listed,
     out |-> out, wrote |-> wrote]

\* no call in progress
NoOp == Op("idle", NoId, <<>>, None, TRUE, NoId, <<>>, <<>>, FALSE)

\* the file stays within the bounds of the model
InBounds(f) ==
    /\ Len(f.data) <= MaxTasks
    /\ \A k \in 1..Len(f.data) : f.data[k].id <= MaxId

\* files a user or another program may have left behind
PoolTasks ==
    [id : Ids, description : {<<"a">>, <<"b">>}, status : valid_statuses,
     created_at : {0}, updated_at : {0}]

PoolLists ==
    UNION {[1..n -> PoolTasks] : n \in 0..MaxTasks}

AnyFiles ==
    {absent_file, blank_file,
     [form |-> "malformed", data |-> <<>>],
     [form |-> "undecodable", data |-> <<>>]}
    \cup [form : JsonForms, data : PoolLists]

InitCommon ==
    /\ impl \in {"manager", "cli"}
    /\ now = 0
    /\ issued = NoId
    /\ lastOp = NoOp

\* a fresh store: no file yet, or an empty one
Init ==
    /\ InitCommon
    /\ tasks_file \in {absent_file, blank_file}

\* any file found at the path
InitAny ==
    /\ InitCommon
    /\ tasks_file \in AnyFiles

\* datetime.now() moves on
Tick ==
    /\ lastOp = NoOp
    /\ \E t \in Times : t > now /\ now' = t
    /\ UNCHANGED <<impl, tasks_file, issued, lastOp>>

AddTask ==
    /\ impl = "manager"
    /\ lastOp = NoOp
    /\ \E description \in Descriptions, can_write \in BOOLEAN :
         \E r \in {add_task(tasks_file, description, now, can_write)} :
             /\ InBounds(r.file)
             /\ tasks_file' = r.file
             /\ issued' = IF r.ret > issued THEN r.ret ELSE issued
             /\ lastOp' = Op("add", NoId, description, None, r.ret # NoId,
                             r.ret, <<>>, r.out, r.wrote)
    /\ UNCHANGED <<impl, now>>

UpdateTask ==
    /\ impl = "manager"
    /\ lastOp = NoOp
    /\ \E task_id \in Ids, description \in Descriptions,
          can_write \in BOOLEAN :
         \E r \in {update_task(tasks_file, task_id, description, now,
                              can_write)} :
             /\ tasks_file' = r.file
             /\ lastOp' = Op("update", task_id, description, None, r.ret,
                             NoId, <<>>, r.out, r.wrote)
    /\ UNCHANGED <<impl, now, issued>>

DeleteTask ==
    /\ impl = "manager"
    /\ lastOp = NoOp
    /\ \E task_id \in Ids, can_write \in BOOLEAN :
         \E r \in {delete_task(tasks_file, task_id, can_write)} :
             /\ tasks_file' = r.file
             /\ lastOp' = Op("delete", task_id, <<>>, None, r.ret, NoId,
                             <<>>, r.out, r.wrote)
    /\ UNCHANGED <<impl, now, issued>>

ChangeStatus ==
    /\ impl = "manager"
    /\ lastOp = NoOp
    /\ \E task_id \in Ids, status \in StatusArgs, can_write \in BOOLEAN :
         \E r \in {change_status(tasks_file, task_id, status, now,
                                can_write)} :
             /\ tasks_file' = r.file
             /\ lastOp' = Op("change_status", task_id, <<>>, status, r.ret,
                             NoId, <<>>, r.out, r.wrote)
    /\ UNCHANGED <<impl, now, issued>>

GetTasks ==
    /\ impl = "manager"
    /\ lastOp = NoOp
    /\ \E status \in StatusArgs \cup {None} :
         \E r \in {get_tasks(tasks_file, status)} :
             lastOp' = Op("list", NoId, <<>>, status, TRUE, NoId, r.ret,
                          r.out, FALSE)
    /\ UNCHANGED <<impl, tasks_file, now, issued>>

\* save_tasks(load_tasks()): the loaded collection saved as it is
SaveLoaded ==
    /\ impl = "manager"
    /\ lastOp = NoOp
    /\ \E can_write \in BOOLEAN :
         \E r \in {save_tasks(tasks_file, load_tasks(tasks_file),
                             can_write)} :
             /\ tasks_file' = r.file
             /\ lastOp' = Op("resave", NoId, <<>>, None, r.ret, NoId, <<>>,
                             load_out(tasks_file) \o r.out, r.ret)
    /\ UNCHANGED <<impl, now, issued>>

\* one run of the script: `python task_cli.py <command> ...`
Cli(command, task_id, description, token, can_write) ==
    /\ impl = "cli"
    /\ lastOp = NoOp
    /\ \E r \in {main(tasks_file, command, task_id, description, token,
                      now, can_write)} :
         /\ InBounds(r.file)
         /\ tasks_file' = r.file
         /\ issued' = IF r.new_id > issued THEN r.new_id ELSE issued
         /\ lastOp' = Op("cli_" \o command, task_id, description, token,
                         r.ok, r.new_id, r.listed, r.out, r.wrote)
    /\ UNCHANGED <<impl, now>>

CliAdd ==
    \E description \in CliDescriptions, can_write \in BOOLEAN :
        Cli("add", NoId, description, None, can_write)

CliUpdate ==
    \E task_id \in Ids, description \in CliDescriptions,
       can_write \in BOOLEAN :
        Cli("update", task_id, description, None, can_write)

CliDelete ==
    \E task_id \in Ids, can_write \in BOOLEAN :
        Cli("delete", task_id, <<>>, None, can_write)

CliMark ==
    \E task_id \in Ids, token \in StatusTokens, can_write \in BOOLEAN :
        Cli("mark", task_id, <<>>, token, can_write)

CliList ==
    \E token \in StatusTokens \cup {None} :
        Cli("list", NoId, <<>>, token, TRUE)

CliHelp == Cli("help", NoId, <<>>, None, TRUE)

\* the method returns to its caller; the script's process exits
Return ==
    /\ lastOp # NoOp
    /\ lastOp' = NoOp
    /\ UNCHANGED <<impl, tasks_file, now, issued>>

Next ==
    \/ Tick
    \/ AddTask
    \/ UpdateTask
    \/ DeleteTask
    \/ ChangeStatus
    \/ GetTasks
    \/ SaveLoaded
    \/ CliAdd
    \/ CliUpdate
    \/ CliDelete
    \/ CliMark
    \/ CliList
    \/ CliHelp
    \/ Return

\* add, delete, list and save-as-loaded, applied to a file found at the path
NextAny ==
    \/ AddTask
    \/ DeleteTask
    \/ GetTasks
    \/ SaveLoaded
    \/ CliAdd
    \/ CliDelete
    \/ CliList
    \/ Return

\* the program started on a fresh store
Spec == Init /\ [][Next]_vars

\* the program started on whatever file is at the path
SpecAny == InitAny /\ [][NextAny]_vars

(* ---------------------------- properties ------------------------------ *)

\* the collection the file holds
Stored == load_tasks(tasks_file)

IdsOf(tasks) == {tasks[k].id : k \in 1..Len(tasks)}

\* the largest id of a non-empty collection
Largest(tasks) ==
    CHOOSE n \in IdsOf(tasks) : \A m \in IdsOf(tasks) : m <= n

\* a description of no characters, or of spaces only
Blank(d) == \A i \in 1..Len(d) : d[i] = " "

Without(tasks, task_id) ==
    SelectSeq(tasks, LAMBDA task : task.id # task_id)

AddOps == {"add", "cli_add"}

\* C1: a successful add returns 1 on an empty collection and N+1 when the
\* largest id of the loaded collection is N; the task appended after the
\* loaded ones has the returned id and status "todo".
C1_AddAssignsNextId ==
    [][(lastOp'.op \in AddOps /\ lastOp'.ok) =>
        LET before == load_tasks(tasks_file)
            after  == load_tasks(tasks_file')
        IN  /\ lastOp'.new_id =
                 (IF before = <<>> THEN 1 ELSE Largest(before) + 1)
            /\ Len(after) = Len(before) + 1
            /\ SubSeq(after, 1, Len(before)) = before
            /\ after[Len(after)].id = lastOp'.new_id
            /\ after[Len(after)].status = "todo"]_vars

\* an add that succeeded on a collection whose largest id exceeds its length
C1_Witness ==
    /\ lastOp.op = "add"
    /\ lastOp.ok
    /\ Len(Stored) = 2
    /\ lastOp.new_id = 3
    /\ Stored[1].id = 2
    /\ Stored[2].id = 3

\* C2: from an empty or absent file, no two stored tasks ever have the same
\* id, and every stored id is a positive integer.
C2_IdsUnique ==
    /\ \A i, j \in 1..Len(Stored) :
          i # j => Stored[i].id # Stored[j].id
    /\ \A i \in 1..Len(Stored) : Stored[i].id \in Nat \ {0}

\* two tasks stored after adds and a delete, the last one just added
C2_Witness ==
    /\ lastOp.op \in AddOps
    /\ lastOp.ok
    /\ Len(Stored) = 2
    /\ Stored[1].id = 2

\* C3 as claimed: every id a successful add returns is strictly greater than
\* every id an earlier successful add returned, deletes included.
C3_NeverReassigned ==
    [][(lastOp'.op \in AddOps /\ lastOp'.ok) =>
        lastOp'.new_id > issued]_vars

\* C3 as amended: every id a successful add returns is strictly greater than
\* every id in the collection it is added to, and strictly greater than
\* every id returned earlier while the task holding the largest id returned
\* so far is still stored.
C3_GreaterThanStored ==
    [][(lastOp'.op \in AddOps /\ lastOp'.ok) =>
        LET before == load_tasks(tasks_file)
        IN  /\ \A i \in IdsOf(before) : lastOp'.new_id > i
            /\ issued \in IdsOf(before) => lastOp'.new_id > issued]_vars

\* an add to a non-empty collection that returned an id returned before
C3_Witness ==
    /\ lastOp.op \in AddOps
    /\ lastOp.ok
    /\ lastOp.new_id < issued
    /\ Len(Stored) = 2

\* C4: add and update given an empty or whitespace-only description fail
\* and leave the file as it was; no task stored by TaskManager ever has an
\* empty or whitespace-only description.
C4_BlankRejected ==
    /\ [][(lastOp'.op \in {"add", "update"} /\ Blank(lastOp'.description))
           => /\ ~lastOp'.ok
              /\ lastOp'.new_id = NoId
              /\ ~lastOp'.wrote
              /\ tasks_file' = tasks_file]_vars
    /\ [](impl = "manager" =>
            \A k \in 1..Len(Stored) : ~Blank(Stored[k].description))

\* an update of a stored task with a whitespace-only description, refused
C4_Witness ==
    /\ lastOp.op = "update"
    /\ lastOp.description = <<" ", " ">>
    /\ ~lastOp.ok
    /\ lastOp.task_id \in IdsOf(Stored)

\* C5: update, delete and change_status given an id no stored task has
\* return failure, report not-found when their other argument is valid, and
\* leave the file as it was, without writing it.
C5_NotFoundNoChange ==
    [][(/\ lastOp'.op \in {"update", "delete", "change_status"}
        /\ lastOp'.task_id \notin IdsOf(load_tasks(tasks_file)))
       => /\ ~lastOp'.ok
          /\ ~lastOp'.wrote
          /\ tasks_file' = tasks_file
          /\ (lastOp'.op = "update" /\ Blank(lastOp'.description))
             \/ (lastOp'.op = "change_status"
                 /\ lastOp'.status \notin {"todo", "in_progress", "done"})
             \/ lastOp'.out = <<"not_found">>]_vars

\* a delete of an id that is not among those of a non-empty collection
C5_Witness ==
    /\ lastOp.op = "delete"
    /\ ~lastOp.ok
    /\ lastOp.out = <<"not_found">>
    /\ Stored # <<>>
    /\ lastOp.task_id \notin IdsOf(Stored)

\* C6: change_status (and the mark command) given a status outside
\* {todo, in_progress, done} fails and leaves the file as it was, whether or
\* not the id exists; every stored task's status is one of the three.
C6_StatusInEnum ==
    /\ [][(\/ /\ lastOp'.op = "change_status"
              /\ lastOp'.status \notin {"todo", "in_progress", "done"}
           \/ /\ lastOp'.op = "cli_mark"
              /\ normalize(lastOp'.status)
                    \notin {"todo", "in_progress", "done"})
          => /\ ~lastOp'.ok
             /\ ~lastOp'.wrote
             /\ tasks_file' = tasks_file]_vars
    /\ [](\A k \in 1..Len(Stored) :
             Stored[k].status \in {"todo", "in_progress", "done"})

\* a change of a stored task's status to the hyphenated token, refused
C6_Witness ==
    /\ lastOp.op = "change_status"
    /\ lastOp.status = "in-progress"
    /\ ~lastOp.ok
    /\ lastOp.task_id \in IdsOf(Stored)

\* what the script's list command prints for a status token
CliListed(f, token) == main(f, "list", NoId, <<>>, token, 0, TRUE).listed

Expected(tasks, status) ==
    IF status = None THEN tasks
    ELSE IF status \in {"todo", "in_progress", "done"}
    THEN SelectSeq(tasks, LAMBDA task : task.status = status)
    ELSE <<>>

\* the same for the status tokens of the command line
CliExpected(tasks, token) ==
    IF token = None THEN tasks
    ELSE IF token = "in-progress"
    THEN SelectSeq(tasks, LAMBDA task : task.status = "in_progress")
    ELSE IF token \in {"todo", "done"}
    THEN SelectSeq(tasks, LAMBDA task : task.status = token)
    ELSE <<>>

\* C9 as claimed: list without a status returns all stored tasks, list(s)
\* for s in the enum exactly those with status s in stored order, list with
\* any other status the empty sequence; the file is never modified.
C9_ListFilters ==
    [][/\ lastOp'.op = "list" =>
            /\ tasks_file' = tasks_file
            /\ lastOp'.listed =
                  Expected(load_tasks(tasks_file), lastOp'.status)
       /\ (lastOp'.op = "cli_list" /\ lastOp'.out # <<"traceback">>) =>
            /\ tasks_file' = tasks_file
            /\ lastOp'.listed =
                  CliExpected(load_tasks(tasks_file), lastOp'.status)]_vars

\* C9 for every status but the empty string
C9_ListFiltersNonEmptyStatus ==
    [][/\ (lastOp'.op = "list" /\ lastOp'.status # "") =>
            /\ tasks_file' = tasks_file
            /\ lastOp'.listed =
                  Expected(load_tasks(tasks_file), lastOp'.status)
       /\ (lastOp'.op = "cli_list" /\ lastOp'.out # <<"traceback">>) =>
            /\ tasks_file' = tasks_file
            /\ lastOp'.listed =
                  CliExpected(load_tasks(tasks_file), lastOp'.status)]_vars

\* d is description without the spaces at its ends
Trimmed(description, d) ==
    \E i, j \in 1..Len(description) :
       /\ i <= j
       /\ d = SubSeq(description, i, j)
       /\ description[i] # " "
       /\ description[j] # " "
       /\ \A m \in 1..Len(description) :
             (m < i \/ m > j) => description[m] = " "

\* C10: a successful update or change_status on id i changes the task with
\* id i only, and of it the description (update) or the status
\* (change_status) and updated_at only; the number and order of tasks stay;
\* no step changes the created_at of a task it keeps.
C10_Frame ==
    /\ [][(/\ lastOp'.op \in {"update", "change_status",
                               "cli_update", "cli_mark"}
           /\ lastOp'.ok)
          => LET before == load_tasks(tasks_file)
                 after  == load_tasks(tasks_file')
                 k == CHOOSE k \in 1..Len(before) :
                         before[k].id = lastOp'.task_id
             IN  /\ Len(after) = Len(before)
                 /\ \A j \in 1..Len(before) : j # k => after[j] = before[j]
                 /\ lastOp'.op = "update" =>
                      /\ Trimmed(lastOp'.description, after[k].description)
                      /\ after[k] =
                           [before[k] EXCEPT
                              !.description = after[k].description,
                              !.updated_at  = now]
                 /\ lastOp'.op = "cli_update" =>
                      after[k] =
                         [before[k] EXCEPT
                            !.description = lastOp'.description,
                            !.updated_at  = now]
                 /\ lastOp'.op = "change_status" =>
                      after[k] =
                         [before[k] EXCEPT
                            !.status     = lastOp'.status,
                            !.updated_at = now]
                 /\ lastOp'.op = "cli_mark" =>
                      after[k] =
                         [before[k] EXCEPT
                            !.status     = normalize(lastOp'.status),
                            !.updated_at = now]]_vars
    /\ [][LET before == load_tasks(tasks_file)
              after  == load_tasks(tasks_file')
          IN  \A i \in 1..Len(before), j \in 1..Len(after) :
                 before[i].id = after[j].id =>
                    before[i].created_at = after[j].created_at]_vars

\* the second of two tasks updated after the clock moved on
C10_Witness ==
    /\ lastOp.op = "update"
    /\ lastOp.ok
    /\ Len(Stored) = 2
    /\ lastOp.task_id = Stored[2].id
    /\ Stored[2].description = <<"b">>
    /\ Stored[2].status = "done"
    /\ Stored[2].updated_at > Stored[2].created_at
====
